---- MODULE Spec2Model ----
(***************************************************************************)
(* A model of DependencyGraphBuilder (src/backend/analyzer.py): the module *)
(* mapper, the AST visitors, the import resolver, the graph assembler and  *)
(* the layout engine, run as the pipeline build() drives.                  *)
(*                                                                         *)
(* Strings are sequences of one-character strings, so that split, join,    *)
(* startswith, endswith and the substring test are computed as the code    *)
(* computes them.  A source text is represented by what ast.parse gives    *)
(* for it: either a SyntaxError or a tree of statements.                   *)
(***************************************************************************)
EXTENDS Naturals, Integers, Sequences, FiniteSets, TLC

(***************************************************************************)
(* Strings                                                                 *)
(***************************************************************************)

\* The characters that occur in the inputs, in code-point order.
Alphabet == <<".", "/", ":", "_", "a", "b", "c", "d", "e", "f", "g", "h", "i",
              "k", "l", "m", "n", "o", "p", "r", "s", "t", "u", "x", "y">>

Ord(ch) == CHOOSE i \in 1..Len(Alphabet) : Alphabet[i] = ch

\* Python's < on str: lexicographic by code point, a proper prefix first.
RECURSIVE StrLess(_, _)
StrLess(s, t) ==
    IF t = <<>> THEN FALSE
    ELSE IF s = <<>> THEN TRUE
    ELSE IF Head(s) = Head(t) THEN StrLess(Tail(s), Tail(t))
    ELSE Ord(Head(s)) < Ord(Head(t))

\* Python's < on tuples of str.
RECURSIVE TupleLess(_, _)
TupleLess(a, b) ==
    IF b = <<>> THEN FALSE
    ELSE IF a = <<>> THEN TRUE
    ELSE IF Head(a) = Head(b) THEN TupleLess(Tail(a), Tail(b))
    ELSE StrLess(Head(a), Head(b))

\* sorted(S) for a set of str.
RECURSIVE SortedStrs(_)
SortedStrs(S) ==
    IF S = {} THEN <<>>
    ELSE LET m == CHOOSE x \in S : \A y \in S \ {x} : StrLess(x, y)
         IN <<m>> \o SortedStrs(S \ {m})

\* sorted(S) for a set of tuples of str.
RECURSIVE SortedTuples(_)
SortedTuples(S) ==
    IF S = {} THEN <<>>
    ELSE LET m == CHOOSE x \in S : \A y \in S \ {x} : TupleLess(x, y)
         IN <<m>> \o SortedTuples(S \ {m})

Range(s) == {s[i] : i \in 1..Len(s)}

StartsWith(s, p) == Len(p) <= Len(s) /\ SubSeq(s, 1, Len(p)) = p

EndsWith(s, p) == Len(p) <= Len(s) /\ SubSeq(s, Len(s) - Len(p) + 1, Len(s)) = p

\* p in s
Contains(s, p) == \E i \in 1..(Len(s) - Len(p) + 1) : SubSeq(s, i, i + Len(p) - 1) = p

\* s.split(sep) for a one-character sep: always at least one part.
RECURSIVE Split(_, _)
Split(s, sep) ==
    IF \A i \in 1..Len(s) : s[i] # sep THEN <<s>>
    ELSE LET i == CHOOSE j \in 1..Len(s) : s[j] = sep /\ \A k \in 1..(j - 1) : s[k] # sep
         IN <<SubSeq(s, 1, i - 1)>> \o Split(SubSeq(s, i + 1, Len(s)), sep)

\* sep.join(parts)
RECURSIVE Join(_, _)
Join(parts, sep) ==
    IF parts = <<>> THEN <<>>
    ELSE IF Len(parts) = 1 THEN parts[1]
    ELSE parts[1] \o <<sep>> \o Join(Tail(parts), sep)

\* [p for p in parts if keep(p)]
RECURSIVE Filter(_, _)
Filter(parts, drop) ==
    IF parts = <<>> THEN <<>>
    ELSE (IF Head(parts) \in drop THEN <<>> ELSE <<Head(parts)>>) \o Filter(Tail(parts), drop)

\* s.rstrip(ch)
RECURSIVE RStrip(_, _)
RStrip(s, ch) ==
    IF s # <<>> /\ s[Len(s)] = ch THEN RStrip(SubSeq(s, 1, Len(s) - 1), ch) ELSE s

\* s.lstrip(ch)
RECURSIVE LStrip(_, _)
LStrip(s, ch) ==
    IF s # <<>> /\ Head(s) = ch THEN LStrip(Tail(s), ch) ELSE s

\* ch * n
RECURSIVE Repeat(_, _)
Repeat(ch, n) == IF n = 0 THEN <<>> ELSE <<ch>> \o Repeat(ch, n - 1)

Last(s) == s[Len(s)]

ButLast(s) == SubSeq(s, 1, Len(s) - 1)

(***************************************************************************)
(* posixpath / os.path, for the relative paths an archive holds (no "."    *)
(* or ".." segment, no leading "/").                                       *)
(***************************************************************************)

\* posixpath.dirname(p)
dirname(p) ==
    IF \A i \in 1..Len(p) : p[i] # "/" THEN <<>>
    ELSE LET i == CHOOSE j \in 1..Len(p) : p[j] = "/" /\ \A k \in (j + 1)..Len(p) : p[k] # "/"
             head == SubSeq(p, 1, i)
         IN IF head # Repeat("/", Len(head)) THEN RStrip(head, "/") ELSE head

\* The segments of abspath(p) below the working directory.
Segments(p) == Filter(Split(p, "/"), {<<>>})

RECURSIVE CommonPrefixLen(_, _)
CommonPrefixLen(a, b) ==
    IF a = <<>> \/ b = <<>> \/ Head(a) # Head(b) THEN 0
    ELSE 1 + CommonPrefixLen(Tail(a), Tail(b))

\* posixpath.relpath(path, start); start = "" is the working directory.
relpath(path, start) ==
    LET start_list == Segments(start)
        path_list == Segments(path)
        i == CommonPrefixLen(start_list, path_list)
        rel_list == [j \in 1..(Len(start_list) - i) |-> <<".", ".">>]
                    \o SubSeq(path_list, i + 1, Len(path_list))
    IN IF rel_list = <<>> THEN <<".">> ELSE Join(rel_list, "/")

\* os.path.splitext(name)[0]: cut at the last dot, unless only dots precede it.
splitext_root(name) ==
    LET dots == {i \in 1..Len(name) : name[i] = "."}
    IN IF dots = {} THEN name
       ELSE LET i == CHOOSE j \in dots : \A k \in dots : k <= j
            IN IF \E k \in 1..(i - 1) : name[k] # "." THEN SubSeq(name, 1, i - 1) ELSE name

s_init_py == <<"_", "_", "i", "n", "i", "t", "_", "_", ".", "p", "y">>

module_key_from_path(root, filepath) ==
    LET rel_path == RStrip(relpath(filepath, root), "/")
        parts0 == Split(rel_path, "/")
        parts == IF Last(parts0) = s_init_py THEN ButLast(parts0)
                 ELSE ButLast(parts0) \o <<splitext_root(Last(parts0))>>
    IN Join(Filter(parts, {<<>>, <<".">>}), ".")

get_top_module(full_name) == IF full_name # <<>> THEN Split(full_name, ".")[1] ELSE <<>>

(***************************************************************************)
(* The syntax trees ast.parse builds, as far as the visitors look at them. *)
(***************************************************************************)

\* Python's None; no string is equal to it, since a string holds characters.
None == <<"None">>

\* Python truthiness of an Optional[str].
Truthy(v) == v # None /\ v # <<>>

Name(id) == [e |-> "Name", id |-> id]

Attribute(value, attr) == [e |-> "Attribute", value |-> value, attr |-> attr]

Call(func) == [e |-> "Call", func |-> func]

alias(name, asname) == [name |-> name, asname |-> asname]

Import(names) == [k |-> "Import", names |-> names]

ImportFrom(module, names, level) ==
    [k |-> "ImportFrom", module |-> module, names |-> names, level |-> level]

Expr(value) == [k |-> "Expr", value |-> value]

FunctionDef(name, body, decorator_list) ==
    [k |-> "FunctionDef", name |-> name, body |-> body, decorator_list |-> decorator_list]

AsyncFunctionDef(name, body, decorator_list) ==
    [k |-> "AsyncFunctionDef", name |-> name, body |-> body,
     decorator_list |-> decorator_list]

ClassDef(name, body) == [k |-> "ClassDef", name |-> name, body |-> body]

\* An if statement; is_main says that its test is  __name__ == "__main__".
If(is_main, body) == [k |-> "If", is_main |-> is_main, body |-> body]

Pass == [k |-> "Pass"]

\* What ast.parse(code) gives: a Module with a body, or a SyntaxError.
Module(body) == [parses |-> TRUE, body |-> body]

SyntaxError == [parses |-> FALSE, body |-> <<>>]

IsFunctionDef(node) == node.k \in {"FunctionDef", "AsyncFunctionDef"}

\* The statements generic_visit reaches below a statement.
ChildStmts(node) ==
    IF node.k \in {"FunctionDef", "AsyncFunctionDef", "ClassDef", "If"} THEN node.body
    ELSE <<>>

\* The expressions generic_visit reaches directly below a statement.
ChildExprs(node) ==
    IF node.k = "Expr" THEN <<node.value>>
    ELSE IF IsFunctionDef(node) THEN node.decorator_list
    ELSE <<>>

(***************************************************************************)
(* ImportVisitor                                                           *)
(***************************************************************************)

\* A visit_Import that records the name the import binds: the alias, when
\* there is one.
visit_Import_asname(node) ==
    [i \in 1..Len(node.names) |->
       IF node.names[i].asname # None THEN node.names[i].asname ELSE node.names[i].name]

\* visit_Import: alias.name of each alias; asname is never read.
visit_Import(node) == [i \in 1..Len(node.names) |-> node.names[i].name]

s_star == <<"*">>

\* A visit_ImportFrom that takes a relative import for an absolute one: the
\* level and the parent package are not looked at.
visit_ImportFrom_absolute(node, parent_package) ==
    LET abs_base == IF node.module # None THEN node.module ELSE <<>>
        one(a) == IF a.name = s_star
                  THEN (IF abs_base # <<>> THEN <<abs_base>> ELSE <<>>)
                  ELSE <<IF abs_base # <<>> THEN abs_base \o <<".">> \o a.name ELSE a.name>>
        RECURSIVE all(_)
        all(names) == IF names = <<>> THEN <<>> ELSE one(Head(names)) \o all(Tail(names))
    IN all(node.names)

\* visit_ImportFrom, for a module whose parent package is parent_package.
visit_ImportFrom(node, parent_package) ==
    LET base == IF node.module # None
                THEN (IF node.level > 0 THEN Repeat(".", node.level) \o node.module
                      ELSE node.module)
                ELSE Repeat(".", node.level)
        rel_depth == Len(base) - Len(LStrip(base, "."))
        pkg_parts == IF parent_package # <<>> THEN Split(parent_package, ".") ELSE <<>>
        prefix == IF rel_depth > 0 /\ Len(pkg_parts) >= rel_depth
                  THEN Join(SubSeq(pkg_parts, 1, Len(pkg_parts) - rel_depth), ".")
                  ELSE parent_package
        abs_base == IF StartsWith(base, <<".">>)
                    THEN prefix \o (IF node.module # None THEN <<".">> \o node.module
                                    ELSE <<>>)
                    ELSE base
        one(a) == IF a.name = s_star
                  THEN (IF abs_base # <<>> THEN <<abs_base>> ELSE <<>>)
                  ELSE LET fq == abs_base \o (IF abs_base # <<>> THEN <<".">> \o a.name
                                              ELSE a.name)
                       IN <<IF fq # <<>> THEN fq ELSE a.name>>
        RECURSIVE all(_)
        all(names) == IF names = <<>> THEN <<>> ELSE one(Head(names)) \o all(Tail(names))
    IN all(node.names)

\* ImportVisitor.visit_Call over an expression: the receiver of  r.m(...)  or
\* the name of  f(...), at every depth of the tree.
RECURSIVE ImportVisitor_expr_calls(_)
ImportVisitor_expr_calls(x) ==
    IF x.e = "Call"
    THEN (IF x.func.e = "Attribute"
          THEN (IF x.func.value.e = "Name" THEN {x.func.value.id} ELSE {})
          ELSE IF x.func.e = "Name" THEN {x.func.id}
          ELSE {})
         \cup ImportVisitor_expr_calls(x.func)
    ELSE IF x.e = "Attribute" THEN ImportVisitor_expr_calls(x.value)
    ELSE {}

\* ImportVisitor(parent_package).visit(tree): self.imports, in visiting order.
RECURSIVE ImportVisitor_imports(_, _)
ImportVisitor_imports(body, parent_package) ==
    IF body = <<>> THEN <<>>
    ELSE LET node == Head(body)
             here == IF node.k = "Import" THEN visit_Import(node)
                     ELSE IF node.k = "ImportFrom"
                     THEN visit_ImportFrom(node, parent_package)
                     ELSE ImportVisitor_imports(ChildStmts(node), parent_package)
         IN here \o ImportVisitor_imports(Tail(body), parent_package)

\* ImportVisitor(parent_package).visit(tree): self.calls.
RECURSIVE ImportVisitor_calls(_)
ImportVisitor_calls(body) ==
    IF body = <<>> THEN {}
    ELSE LET node == Head(body)
             xs == ChildExprs(node)
         IN UNION {ImportVisitor_expr_calls(xs[i]) : i \in 1..Len(xs)}
            \cup ImportVisitor_calls(ChildStmts(node))
            \cup ImportVisitor_calls(Tail(body))

(***************************************************************************)
(* CallGraphVisitor: self.calls as the set of pairs <<caller, target>>; a   *)
(* caller is a key of the dict exactly when it has a pair.                 *)
(***************************************************************************)

\* CallGraphVisitor.visit_Call over an expression, inside current_function.
RECURSIVE CallGraphVisitor_visit_Call(_, _)
CallGraphVisitor_visit_Call(x, current_function) ==
    IF x.e = "Call"
    THEN (IF Truthy(current_function)
          THEN (IF x.func.e = "Name" THEN {<<current_function, x.func.id>>}
                ELSE IF x.func.e = "Attribute" /\ x.func.value.e = "Name"
                THEN {<<current_function, x.func.attr>>}
                ELSE {})
          ELSE {})
         \cup CallGraphVisitor_visit_Call(x.func, current_function)
    ELSE IF x.e = "Attribute" THEN CallGraphVisitor_visit_Call(x.value, current_function)
    ELSE {}

\* CallGraphVisitor().visit over a statement list, inside current_function:
\* visit_FunctionDef sets current_function for the function's body and its
\* decorators, and restores it afterwards.
RECURSIVE CallGraphVisitor_calls(_, _)
CallGraphVisitor_calls(body, current_function) ==
    IF body = <<>> THEN {}
    ELSE LET node == Head(body)
             inner == IF IsFunctionDef(node) THEN node.name ELSE current_function
             xs == ChildExprs(node)
         IN UNION {CallGraphVisitor_visit_Call(xs[i], inner) : i \in 1..Len(xs)}
            \cup CallGraphVisitor_calls(ChildStmts(node), inner)
            \cup CallGraphVisitor_calls(Tail(body), current_function)

\* dict.get(name, []) on the call graph.
calls_get(calls, name) == {p[2] : p \in {q \in calls : q[1] = name}}

(***************************************************************************)
(* EntrypointVisitor                                                       *)
(***************************************************************************)

s_app == <<"a", "p", "p">>
s_route == <<"r", "o", "u", "t", "e">>
s_get == <<"g", "e", "t">>
s_post == <<"p", "o", "s", "t">>
s_put == <<"p", "u", "t">>
s_delete == <<"d", "e", "l", "e", "t", "e">>
s_patch == <<"p", "a", "t", "c", "h">>
s_main == <<"_", "_", "m", "a", "i", "n", "_", "_">>

HttpVerbs == {s_get, s_post, s_put, s_delete, s_patch, s_route}

\* One decorator of visit_FunctionDef / visit_AsyncFunctionDef.
IsEntrypointDecorator(dec) ==
    IF dec.e = "Name" THEN dec.id \in {s_app, s_route}
    ELSE IF dec.e = "Attribute" THEN dec.attr \in HttpVerbs
    ELSE IF dec.e = "Call" THEN dec.func.e = "Attribute" /\ dec.func.attr \in HttpVerbs
    ELSE FALSE

\* EntrypointVisitor().visit(tree): self.entrypoints.
RECURSIVE EntrypointVisitor_entrypoints(_)
EntrypointVisitor_entrypoints(body) ==
    IF body = <<>> THEN {}
    ELSE LET node == Head(body)
             here == IF node.k = "If" THEN (IF node.is_main THEN {s_main} ELSE {})
                     ELSE IF IsFunctionDef(node)
                     THEN (IF \E i \in 1..Len(node.decorator_list) :
                                 IsEntrypointDecorator(node.decorator_list[i])
                           THEN {node.name} ELSE {})
                     ELSE {}
         IN here \cup EntrypointVisitor_entrypoints(ChildStmts(node))
                 \cup EntrypointVisitor_entrypoints(Tail(body))

\* extract_symbols(tree): <<name, kind>> of the direct children of the module
\* body that define a class or a function.
RECURSIVE extract_symbols(_)
extract_symbols(body) ==
    IF body = <<>> THEN <<>>
    ELSE LET node == Head(body)
             here == IF node.k = "ClassDef" THEN <<<<node.name, "class">>>>
                     ELSE IF IsFunctionDef(node) THEN <<<<node.name, "function">>>>
                     ELSE <<>>
         IN here \o extract_symbols(Tail(body))

(***************************************************************************)
(* Insertion-ordered dicts, as sequences of <<key, value>>.                *)
(***************************************************************************)

DictHas(d, key) == \E i \in 1..Len(d) : d[i][1] = key

DictGet(d, key) == d[CHOOSE i \in 1..Len(d) : d[i][1] = key][2]

\* d[key] = value: an existing key keeps its place.
DictPut(d, key, value) ==
    IF DictHas(d, key)
    THEN [i \in 1..Len(d) |-> IF d[i][1] = key THEN <<key, value>> ELSE d[i]]
    ELSE Append(d, <<key, value>>)

DictKeys(d) == [i \in 1..Len(d) |-> d[i][1]]

(***************************************************************************)
(* The state of one build().                                               *)
(***************************************************************************)

VARIABLES
    files,             \* self.files: <<path, parse result>> in the order of the input map
    symbol_level,      \* self.symbol_level
    RADON_AVAILABLE,   \* whether the metric provider is installed
    interpreter,       \* what is_stdlib finds in the running interpreter
    pc,                \* the step of build() that runs next
    roots,             \* self.roots
    module_map,        \* self.module_map: <<module id, path>>
    processed,         \* how many entries of module_map _analyze_modules has visited
    nodes,             \* self.nodes
    edges,             \* self.edges
    external_deps,     \* self.external_deps
    module_details,    \* self.module_details: <<module id, details>>
    layout_depth,      \* self.layout_depth: <<node id, depth>>
    layout,            \* the locals of _calculate_layout
    artifact,          \* what build() returned
    run,               \* 1 for the first build() on the input, 2 for the second
    first              \* the artifact of the first build()

vars == <<files, symbol_level, RADON_AVAILABLE, interpreter, pc, roots, module_map,
          processed, nodes, edges, external_deps, module_details, layout_depth,
          layout, artifact, run, first>>

s_imports == <<"i", "m", "p", "o", "r", "t", "s">>
s_calls == <<"c", "a", "l", "l", "s">>
s_defines == <<"d", "e", "f", "i", "n", "e", "s">>
s_external == <<"e", "x", "t", "e", "r", "n", "a", "l">>

\* f"external:{ext_pkg}"
external_id(ext_pkg) == s_external \o <<":">> \o ext_pkg

\* f"{module_id}.{sym_name}"
symbol_id(module_id, sym_name) == module_id \o <<".">> \o sym_name

(***************************************************************************)
(* is_stdlib                                                               *)
(***************************************************************************)

s_sys == <<"s", "y", "s">>
s_os == <<"o", "s">>
s_re == <<"r", "e">>
s_math == <<"m", "a", "t", "h">>
s_time == <<"t", "i", "m", "e">>
s_io == <<"i", "o">>

\* The members of STDLIB_FALLBACK that the alphabet spells.
STDLIB_FALLBACK == {s_sys, s_os, s_re, s_math, s_time, s_io}

\* is_stdlib(module_name) in an interpreter described by
\*   builtin: sys.builtin_module_names,
\*   raises:  the names for which importlib.util.find_spec raises,
\*   stdlib:  the names whose spec has an origin under the stdlib path or
\*            sys.base_prefix;
\* find_spec("") always raises ValueError.
is_stdlib_in(interp, module_name) ==
    IF module_name \in interp.builtin THEN TRUE
    ELSE IF module_name = <<>> \/ module_name \in interp.raises
    THEN module_name \in STDLIB_FALLBACK
    ELSE module_name \in interp.stdlib

is_stdlib(module_name) == is_stdlib_in(interpreter, module_name)

(***************************************************************************)
(* DependencyGraphBuilder._detect_project_roots                            *)
(***************************************************************************)

s_src == <<"s", "r", "c">>
s_python == <<"p", "y", "t", "h", "o", "n">>
s_lib == <<"l", "i", "b">>
s_pkg == <<"p", "k", "g">>

KnownRoots == {s_src, s_python, s_lib, s_pkg, s_app}

HasSlash(p) == \E i \in 1..Len(p) : p[i] = "/"

detect_roots(fs) ==
    LET paths == {fs[i][1] : i \in 1..Len(fs)}
        dirs == {dirname(p) : p \in paths}
        top(d) == IF HasSlash(d) THEN Split(d, "/")[1] ELSE d
        named == {top(d) : d \in dirs} \cap KnownRoots
        firsts == {Split(p, "/")[1] : p \in {q \in paths : HasSlash(q)}}
        candidates == IF named # {} THEN named
                      ELSE IF firsts # {} THEN firsts
                      ELSE {<<>>}
    IN SortedStrs(candidates)

\* The module_map the loop over self.files.keys() leaves: each file goes
\* under the first root its path starts with, and a file no root matches is
\* skipped.
RECURSIVE build_module_map(_, _, _)
build_module_map(fs, rts, mm) ==
    IF fs = <<>> THEN mm
    ELSE LET filepath == Head(fs)[1]
             hits == {i \in 1..Len(rts) : StartsWith(filepath, rts[i])}
         IN IF hits = {} THEN build_module_map(Tail(fs), rts, mm)
            ELSE LET root == rts[CHOOSE i \in hits : \A j \in hits : i <= j]
                     mod_id == module_key_from_path(root, filepath)
                 IN build_module_map(Tail(fs), rts, DictPut(mm, mod_id, filepath))

(***************************************************************************)
(* DependencyGraphBuilder._resolve_import                                  *)
(***************************************************************************)

\* The last key of the module map, in its order, that is one of matching.
FirstKey_last(mm, matching) ==
    LET hits == {i \in 1..Len(mm) : mm[i][1] \in matching}
    IN IF hits = {} THEN None ELSE mm[CHOOSE i \in hits : \A j \in hits : j <= i][1]

\* The first key of the module map, in its order, that is one of matching.
FirstKey(mm, matching) ==
    LET hits == {i \in 1..Len(mm) : mm[i][1] \in matching}
    IN IF hits = {} THEN None ELSE mm[CHOOSE i \in hits : \A j \in hits : i <= j][1]

resolve_import(mm, import_name) ==
    LET keys == {mm[i][1] : i \in 1..Len(mm)}
        suffix == {key \in keys : EndsWith(key, <<".">> \o import_name)}
        import_basename == Last(Split(import_name, "."))
        basename == {key \in keys : Last(Split(key, ".")) = import_basename}
        substring == {key \in keys : Contains(key, import_name)}
        top == get_top_module(import_name)
    IN IF DictHas(mm, import_name) THEN import_name
       ELSE IF FirstKey(mm, suffix) # None THEN FirstKey(mm, suffix)
       ELSE IF FirstKey(mm, basename) # None THEN FirstKey(mm, basename)
       ELSE IF FirstKey(mm, substring) # None THEN FirstKey(mm, substring)
       ELSE IF DictHas(mm, top) THEN top
       ELSE None

_resolve_import(import_name) == resolve_import(module_map, import_name)

(***************************************************************************)
(* DependencyGraphBuilder._analyze_modules: one pass of its loop            *)
(***************************************************************************)

\* Whether the metric provider returns a non-empty block list for the tree:
\* radon reports one block per function and class definition, and nothing
\* when it is not installed.
RECURSIVE HasDefinition(_)
HasDefinition(body) ==
    body # <<>> /\ (\/ Head(body).k \in {"FunctionDef", "AsyncFunctionDef", "ClassDef"}
                    \/ HasDefinition(ChildStmts(Head(body)))
                    \/ HasDefinition(Tail(body)))

calculate_module_complexity_blocks(body) == RADON_AVAILABLE /\ HasDefinition(body)

\* FunctionDetails whose called_by keeps only the callers that are top-level
\* functions.
function_details_top_level_callers(symbols, calls, entrypoints) ==
    LET fsyms == SelectSeq(symbols, LAMBDA sym : sym[2] = "function")
        top == {fsyms[i][1] : i \in 1..Len(fsyms)}
    IN [i \in 1..Len(fsyms) |->
          [name |-> fsyms[i][1],
           calls |-> calls_get(calls, fsyms[i][1]),
           called_by |-> {p[1] : p \in {q \in calls : q[2] = fsyms[i][1]}} \cap top,
           is_entrypoint |-> fsyms[i][1] \in entrypoints]]

\* The FunctionDetails of the top-level functions, with called_by filled in
\* from the inverted call graph.
function_details(symbols, calls, entrypoints) ==
    LET fsyms == SelectSeq(symbols, LAMBDA sym : sym[2] = "function")
    IN [i \in 1..Len(fsyms) |->
          [name |-> fsyms[i][1],
           calls |-> calls_get(calls, fsyms[i][1]),
           called_by |-> {p[1] : p \in {q \in calls : q[2] = fsyms[i][1]}},
           is_entrypoint |-> fsyms[i][1] \in entrypoints]]

\* A dead list that forgets the entry points.
dead_functions_without_entrypoints(functions, calls) ==
    LET all_called == {p[2] : p \in calls}
        RECURSIVE dead(_)
        dead(fs) == IF fs = <<>> THEN <<>>
                    ELSE (IF Head(fs).name \in all_called THEN <<>> ELSE <<Head(fs).name>>)
                         \o dead(Tail(fs))
    IN dead(functions)

\* dead: the functions no recorded call targets and that are no entry point.
dead_functions(functions, calls) ==
    LET all_called == {p[2] : p \in calls}
        live(f) == f.name \in all_called \/ f.is_entrypoint
        RECURSIVE dead(_)
        dead(fs) == IF fs = <<>> THEN <<>>
                    ELSE (IF live(Head(fs)) THEN <<>> ELSE <<Head(fs).name>>)
                         \o dead(Tail(fs))
    IN dead(functions)

\* What the loop over visitor.imports does with one import.
import_edge(module_id, imp) ==
    LET target == _resolve_import(imp)
    IN IF Truthy(target) /\ target # module_id THEN {<<module_id, target, s_imports>>}
       ELSE {}

\* An external registration that does not ask is_stdlib.
import_external_unfiltered(module_id, imp) ==
    LET target == _resolve_import(imp)
    IN IF Truthy(target) /\ target # module_id THEN {} ELSE {get_top_module(imp)}

\* What the same loop registers as an external package.
import_external(module_id, imp) ==
    LET target == _resolve_import(imp)
        top_level == get_top_module(imp)
    IN IF Truthy(target) /\ target # module_id THEN {}
       ELSE IF ~is_stdlib(top_level) THEN {top_level}
       ELSE {}

\* What the loop over visitor.calls does with one call alias: the first
\* import whose last segment is the alias and that resolves to another
\* module gives a calls edge.
call_edge(module_id, call_alias, imports) ==
    LET good(i) == /\ call_alias = Last(Split(imports[i], "."))
                   /\ Truthy(_resolve_import(imports[i]))
                   /\ _resolve_import(imports[i]) # module_id
        hits == {i \in 1..Len(imports) : good(i)}
    IN IF hits = {} THEN {}
       ELSE {<<module_id, _resolve_import(imports[CHOOSE i \in hits : \A j \in hits : i <= j]),
               s_calls>>}

Unplaced == [radius |-> 0, index |-> 0, count |-> 1]

module_node(module_id, filepath, symbols, imports) ==
    [id |-> module_id, kind |-> "module", title |-> Last(Split(module_id, ".")),
     path |-> filepath,
     project |-> get_top_module(module_id), parent |-> None,
     stats |-> [Classes |-> Len(SelectSeq(symbols, LAMBDA sym : sym[2] = "class")),
                Functions |-> Len(SelectSeq(symbols, LAMBDA sym : sym[2] = "function")),
                Imports |-> Len(imports)],
     xy |-> Unplaced]

symbol_node(module_id, filepath, sym) ==
    [id |-> symbol_id(module_id, sym[1]), kind |-> sym[2], title |-> sym[1],
     path |-> filepath,
     project |-> get_top_module(module_id), parent |-> module_id,
     stats |-> [Classes |-> 0, Functions |-> 0, Imports |-> 0],
     xy |-> Unplaced]

file_code(filepath) == DictGet(files, filepath)

\* The body of the loop of _analyze_modules for one entry of module_map.
AnalyzeModule ==
    /\ pc = "analyze"
    /\ processed < Len(module_map)
    /\ LET module_id == module_map[processed + 1][1]
           filepath == module_map[processed + 1][2]
           code == file_code(filepath)
           parent_pkg == Join(ButLast(Split(module_id, ".")), ".")
           imports == ImportVisitor_imports(code.body, parent_pkg)
           vcalls == ImportVisitor_calls(code.body)
           calls == CallGraphVisitor_calls(code.body, None)
           entrypoints == EntrypointVisitor_entrypoints(code.body)
           symbols == extract_symbols(code.body)
           functions == function_details(symbols, calls, entrypoints)
           blocks == calculate_module_complexity_blocks(code.body)
           details == [path |-> filepath, imports |-> imports, symbols |-> Len(symbols),
                       functions |-> functions, entrypoints |-> entrypoints,
                       call_graph |-> calls,
                       dead_functions |-> dead_functions(functions, calls)]
           with_symbols == symbol_level /\ blocks
       IN IF ~code.parses
          THEN \* except SyntaxError: continue
               UNCHANGED <<nodes, edges, external_deps, module_details>>
          ELSE /\ nodes' = nodes \o <<module_node(module_id, filepath, symbols, imports)>>
                             \o (IF with_symbols
                                 THEN [i \in 1..Len(symbols) |->
                                         symbol_node(module_id, filepath, symbols[i])]
                                 ELSE <<>>)
               /\ module_details' = DictPut(module_details, module_id, details)
               /\ edges' = edges
                    \cup UNION {import_edge(module_id, imports[i]) : i \in 1..Len(imports)}
                    \cup UNION {call_edge(module_id, a, imports) : a \in vcalls}
                    \cup (IF with_symbols
                          THEN {<<module_id, symbol_id(module_id, symbols[i][1]), s_defines>> :
                                  i \in 1..Len(symbols)}
                          ELSE {})
               /\ external_deps' = external_deps
                    \cup UNION {import_external(module_id, imports[i]) : i \in 1..Len(imports)}
    /\ processed' = processed + 1
    /\ UNCHANGED <<files, symbol_level, RADON_AVAILABLE, interpreter, pc, roots,
                   module_map, layout_depth, layout, artifact, run, first>>

\* The loop of _analyze_modules has visited every entry.
AnalyzeDone ==
    /\ pc = "analyze"
    /\ processed = Len(module_map)
    /\ pc' = "externals"
    /\ UNCHANGED <<files, symbol_level, RADON_AVAILABLE, interpreter, roots, module_map,
                   processed, nodes, edges, external_deps, module_details, layout_depth,
                   layout, artifact, run, first>>

DetectProjectRoots ==
    /\ pc = "detect"
    /\ roots' = detect_roots(files)
    /\ module_map' = build_module_map(files, detect_roots(files), <<>>)
    /\ pc' = "analyze"
    /\ UNCHANGED <<files, symbol_level, RADON_AVAILABLE, interpreter, processed, nodes,
                   edges, external_deps, module_details, layout_depth, layout, artifact,
                   run, first>>

(***************************************************************************)
(* DependencyGraphBuilder._add_external_nodes                              *)
(***************************************************************************)

external_node(ext_pkg) ==
    [id |-> external_id(ext_pkg), kind |-> "external", title |-> ext_pkg,
     path |-> s_external \o <<"/">> \o ext_pkg,
     project |-> s_external, parent |-> None,
     stats |-> [Classes |-> 0, Functions |-> 0, Imports |-> 0],
     xy |-> Unplaced]

\* The external edges to one package: one from every analysed module that
\* has an import under it.
external_edges(ext_pkg) ==
    {<<module_details[i][1], external_id(ext_pkg), s_external>> :
       i \in {j \in 1..Len(module_details) :
                \E n \in 1..Len(module_details[j][2].imports) :
                   get_top_module(module_details[j][2].imports[n]) = ext_pkg}}

AddExternalNodes ==
    /\ pc = "externals"
    /\ LET pkgs == SortedStrs(external_deps)
       IN /\ nodes' = nodes \o [i \in 1..Len(pkgs) |-> external_node(pkgs[i])]
          /\ edges' = edges \cup UNION {external_edges(e) : e \in external_deps}
    /\ pc' = "layout"
    /\ UNCHANGED <<files, symbol_level, RADON_AVAILABLE, interpreter, roots, module_map,
                   processed, external_deps, module_details, layout_depth, layout,
                   artifact, run, first>>

(***************************************************************************)
(* DependencyGraphBuilder._calculate_layout.  A Python set is iterated in   *)
(* an order the program does not control: every loop over one takes its    *)
(* elements in any order.                                                  *)
(***************************************************************************)

FallbackRadius == 500
BaseRadius == 300
RadiusStep == 200

NoLayout ==
    [graph |-> {}, reverse_graph |-> {}, all_nodes |-> {}, visited |-> {}, order |-> <<>>,
     stack |-> <<>>, component |-> {}, comp_id |-> 0, comp_graph |-> {},
     comp_depth |-> <<>>, in_degree |-> <<>>, queue |-> <<>>]

LayoutTypes == {s_imports, s_calls, s_external}

\* graph[node] and reverse_graph[node]
adjacent(rel, node) == {p[2] : p \in {q \in rel : q[1] = node}}

\* A reverse graph that is the graph itself.
reverse_edges_forward(graph) == graph

\* reverse_graph[dst].add(src) for every graph[src].add(dst)
reverse_edges(graph) == {<<p[2], p[1]>> : p \in graph}

\* if not self.edges: every node goes on one circle.
LayoutFallback ==
    /\ pc = "layout"
    /\ edges = {}
    /\ nodes' = [i \in 1..Len(nodes) |->
                   [nodes[i] EXCEPT !.xy = [radius |-> FallbackRadius, index |-> i - 1,
                                            count |-> Len(nodes)]]]
    /\ pc' = "return"
    /\ UNCHANGED <<files, symbol_level, RADON_AVAILABLE, interpreter, roots, module_map,
                   processed, edges, external_deps, module_details, layout_depth, layout,
                   artifact, run, first>>

\* graph, reverse_graph and all_nodes.
LayoutGraph ==
    /\ pc = "layout"
    /\ edges # {}
    /\ LET all_nodes == {nodes[i].id : i \in {j \in 1..Len(nodes) :
                                              nodes[j].kind \in {"module", "external"}}}
           graph == {<<e[1], e[2]>> : e \in {d \in edges : /\ d[3] \in LayoutTypes
                                                           /\ d[1] \in all_nodes
                                                           /\ d[2] \in all_nodes}}
       IN layout' = [NoLayout EXCEPT !.graph = graph,
                                     !.reverse_graph = reverse_edges(graph),
                                     !.all_nodes = all_nodes]
    /\ pc' = "dfs1"
    /\ UNCHANGED <<files, symbol_level, RADON_AVAILABLE, interpreter, roots, module_map,
                   processed, nodes, edges, external_deps, module_details, layout_depth,
                   artifact, run, first>>

Unchanged_but_layout ==
    UNCHANGED <<files, symbol_level, RADON_AVAILABLE, interpreter, pc, roots, module_map,
                processed, nodes, edges, external_deps, module_details, layout_depth,
                artifact, run, first>>

Top(stack) == stack[Len(stack)]

\* for node in all_nodes: if node not in visited: dfs1(node)
Dfs1Root ==
    /\ pc = "dfs1"
    /\ layout.stack = <<>>
    /\ \E node \in layout.all_nodes \ layout.visited :
          layout' = [layout EXCEPT
                       !.visited = @ \cup {node},
                       !.stack = <<[node |-> node, todo |-> adjacent(layout.graph, node)]>>]
    /\ Unchanged_but_layout

\* One turn of  for neighbor in graph[node]  in the innermost dfs1.
Dfs1Neighbor ==
    /\ pc = "dfs1"
    /\ layout.stack # <<>>
    /\ \E neighbor \in Top(layout.stack).todo :
          LET rest == [layout.stack EXCEPT ![Len(layout.stack)].todo = @ \ {neighbor}]
          IN IF neighbor \notin layout.visited
             THEN layout' = [layout EXCEPT
                               !.visited = @ \cup {neighbor},
                               !.stack = Append(rest,
                                   [node |-> neighbor,
                                    todo |-> adjacent(layout.graph, neighbor)])]
             ELSE layout' = [layout EXCEPT !.stack = rest]
    /\ Unchanged_but_layout

\* order.append(node): the innermost dfs1 returns.
Dfs1Return ==
    /\ pc = "dfs1"
    /\ layout.stack # <<>>
    /\ Top(layout.stack).todo = {}
    /\ layout' = [layout EXCEPT !.order = Append(@, Top(layout.stack).node),
                                !.stack = ButLast(@)]
    /\ Unchanged_but_layout

\* The first pass is over: visited.clear().
Dfs1Done ==
    /\ pc = "dfs1"
    /\ layout.stack = <<>>
    /\ layout.all_nodes \subseteq layout.visited
    /\ layout' = [layout EXCEPT !.visited = {}]
    /\ pc' = "dfs2"
    /\ UNCHANGED <<files, symbol_level, RADON_AVAILABLE, interpreter, roots, module_map,
                   processed, nodes, edges, external_deps, module_details, layout_depth,
                   artifact, run, first>>

\* for node in reversed(order): if node not in visited: dfs2(node, comp_id)
Dfs2Root ==
    /\ pc = "dfs2"
    /\ layout.stack = <<>>
    /\ \E i \in 1..Len(layout.order) :
          /\ layout.order[i] \notin layout.visited
          /\ \A j \in (i + 1)..Len(layout.order) : layout.order[j] \in layout.visited
          /\ layout' = [layout EXCEPT
                          !.component = @ \cup {<<layout.order[i], layout.comp_id>>},
                          !.visited = @ \cup {layout.order[i]},
                          !.stack = <<[node |-> layout.order[i],
                                       todo |-> adjacent(layout.reverse_graph,
                                                         layout.order[i])]>>]
    /\ Unchanged_but_layout

\* One turn of  for neighbor in reverse_graph[node]  in the innermost dfs2.
Dfs2Neighbor ==
    /\ pc = "dfs2"
    /\ layout.stack # <<>>
    /\ \E neighbor \in Top(layout.stack).todo :
          LET rest == [layout.stack EXCEPT ![Len(layout.stack)].todo = @ \ {neighbor}]
          IN IF neighbor \notin layout.visited
             THEN layout' = [layout EXCEPT
                               !.component = @ \cup {<<neighbor, layout.comp_id>>},
                               !.visited = @ \cup {neighbor},
                               !.stack = Append(rest,
                                   [node |-> neighbor,
                                    todo |-> adjacent(layout.reverse_graph, neighbor)])]
             ELSE layout' = [layout EXCEPT !.stack = rest]
    /\ Unchanged_but_layout

\* The innermost dfs2 returns; after the outermost one, comp_id += 1.
Dfs2Return ==
    /\ pc = "dfs2"
    /\ layout.stack # <<>>
    /\ Top(layout.stack).todo = {}
    /\ layout' = [layout EXCEPT
                    !.stack = ButLast(@),
                    !.comp_id = IF Len(layout.stack) = 1 THEN @ + 1 ELSE @]
    /\ Unchanged_but_layout

component_of(component, node) == (CHOOSE p \in component : p[1] = node)[2]

HasComponent(component, node) == \E p \in component : p[1] = node

\* comp_graph, comp_depth, in_degree and the initial queue.
Condense ==
    /\ pc = "dfs2"
    /\ layout.stack = <<>>
    /\ \A i \in 1..Len(layout.order) : layout.order[i] \in layout.visited
    /\ LET comp == layout.component
           comps == 0..(layout.comp_id - 1)
           comp_graph == {<<component_of(comp, e[1]), component_of(comp, e[2])>> :
                            e \in {d \in edges :
                                     /\ HasComponent(comp, d[1])
                                     /\ HasComponent(comp, d[2])
                                     /\ component_of(comp, d[1]) # component_of(comp, d[2])}}
           in_degree == [c \in comps |-> Cardinality({p \in comp_graph : p[2] = c})]
       IN layout' = [layout EXCEPT
                       !.comp_graph = comp_graph,
                       !.comp_depth = [c \in comps |-> 0],
                       !.in_degree = in_degree,
                       !.queue = SelectSeq([i \in 1..layout.comp_id |-> i - 1],
                                           LAMBDA c : in_degree[c] = 0)]
    /\ pc' = "kahn"
    /\ UNCHANGED <<files, symbol_level, RADON_AVAILABLE, interpreter, roots, module_map,
                   processed, nodes, edges, external_deps, module_details, layout_depth,
                   artifact, run, first>>

\* Every order in which a set can be iterated.
Orders(S) == {o \in [1..Cardinality(S) -> S] : \A x \in S : \E i \in DOMAIN o : o[i] = x}

\* for neighbor in comp_graph[c], in the order o.
RECURSIVE relax(_, _, _, _, _)
relax(c, o, depth, indeg, queue) ==
    IF o = <<>> THEN [comp_depth |-> depth, in_degree |-> indeg, queue |-> queue]
    ELSE LET neighbor == Head(o)
             d == IF depth[neighbor] > depth[c] + 1 THEN depth[neighbor] ELSE depth[c] + 1
             n == indeg[neighbor] - 1
         IN relax(c, Tail(o), [depth EXCEPT ![neighbor] = d], [indeg EXCEPT ![neighbor] = n],
                  IF n = 0 THEN Append(queue, neighbor) ELSE queue)

\* One turn of  while queue.
KahnStep ==
    /\ pc = "kahn"
    /\ layout.queue # <<>>
    /\ \E o \in Orders(adjacent(layout.comp_graph, Head(layout.queue))) :
          LET r == relax(Head(layout.queue), o, layout.comp_depth, layout.in_degree,
                         Tail(layout.queue))
          IN layout' = [layout EXCEPT !.comp_depth = r.comp_depth,
                                      !.in_degree = r.in_degree,
                                      !.queue = r.queue]
    /\ Unchanged_but_layout

\* A depth that is the component's id instead of its depth.
depth_of_component_id(lay, node_id) ==
    IF HasComponent(lay.component, node_id) THEN component_of(lay.component, node_id) ELSE 0

\* comp_depth.get(component.get(node_id, 0), 0)
depth_of(lay, node_id) ==
    LET c == IF HasComponent(lay.component, node_id)
             THEN component_of(lay.component, node_id) ELSE 0
    IN IF c \in DOMAIN lay.comp_depth THEN lay.comp_depth[c] ELSE 0

\* Whether the loop over self.nodes gives the node a depth, and which.
IsBanded(node) == node.kind \in {"module", "external"} \/ Truthy(node.parent)

band_of(lay, node) ==
    IF node.kind \in {"module", "external"} THEN depth_of(lay, node.id)
    ELSE depth_of(lay, node.parent)

RECURSIVE record_depths(_, _, _)
record_depths(lay, ns, ld) ==
    IF ns = <<>> THEN ld
    ELSE record_depths(lay, Tail(ns),
                       IF IsBanded(Head(ns))
                       THEN DictPut(ld, Head(ns).id, band_of(lay, Head(ns)))
                       ELSE ld)

\* depth_nodes, layout_depth, and the place of each node on its depth's circle.
PlaceNodes ==
    /\ pc = "kahn"
    /\ layout.queue = <<>>
    /\ LET banded == {i \in 1..Len(nodes) : IsBanded(nodes[i])}
           band(i) == band_of(layout, nodes[i])
           nodes_at_depth(d) == {j \in banded : band(j) = d}
       IN nodes' = [i \in 1..Len(nodes) |->
                      IF i \in banded
                      THEN [nodes[i] EXCEPT !.xy =
                              [radius |-> BaseRadius + band(i) * RadiusStep,
                               index |-> Cardinality({j \in nodes_at_depth(band(i)) : j < i}),
                               count |-> Cardinality(nodes_at_depth(band(i)))]]
                      ELSE nodes[i]]
    /\ layout_depth' = record_depths(layout, nodes, layout_depth)
    /\ layout' = NoLayout
    /\ pc' = "return"
    /\ UNCHANGED <<files, symbol_level, RADON_AVAILABLE, interpreter, roots, module_map,
                   processed, edges, external_deps, module_details, artifact, run, first>>

(***************************************************************************)
(* DependencyGraphBuilder.build: the artifact                              *)
(***************************************************************************)

NoArtifact == [nodes |-> <<>>, edges |-> <<>>, module_details |-> <<>>,
               layout_depth |-> <<>>]

\* sorted(self.edges)
sorted_edges(es) == SortedTuples(es)

Return ==
    /\ pc = "return"
    /\ artifact' = [nodes |-> nodes, edges |-> sorted_edges(edges),
                    module_details |-> module_details, layout_depth |-> layout_depth]
    /\ pc' = "done"
    /\ UNCHANGED <<files, symbol_level, RADON_AVAILABLE, interpreter, roots, module_map,
                   processed, nodes, edges, external_deps, module_details, layout_depth,
                   layout, run, first>>

(***************************************************************************)
(* The inputs: small projects, of which a run gets up to MaxFiles files in  *)
(* any order.                                                              *)
(***************************************************************************)

MaxFiles == 4

s_a == <<"a">>
s_b == <<"b">>
s_c == <<"c">>
s_d == <<"d">>
s_f == <<"f">>
s_g == <<"g">>
s_h == <<"h">>
s_k == <<"k">>
s_m == <<"m">>
s_n == <<"n">>
s_p == <<"p">>
s_x == <<"x">>
s_np == <<"n", "p">>
s_numpy == <<"n", "u", "m", "p", "y">>
s_array == <<"a", "r", "r", "a", "y">>
s_getpid == <<"g", "e", "t", "p", "i", "d">>
s_used == <<"u", "s", "e", "d">>
s_dead == <<"d", "e", "a", "d">>
s_cls == <<"c", "l", "s">>
s_meth == <<"m", "e", "t", "h">>
s_outer == <<"o", "u", "t", "e", "r">>
s_inner == <<"i", "n", "n", "e", "r">>
s_handler == <<"h", "a", "n", "d", "l", "e", "r">>

\* name.py, and dir/name.py
py(name) == name \o <<".", "p", "y">>

in_dir(dir, file) == dir \o <<"/">> \o file

import_(name) == Import(<<alias(name, None)>>)

\* import numpy as np / import os / np.array() / os.getpid()
SrcNumpy ==
    Module(<<Import(<<alias(s_numpy, s_np)>>),
             import_(s_os),
             Expr(Call(Attribute(Name(s_np), s_array))),
             Expr(Call(Attribute(Name(s_os), s_getpid)))>>)

\* def used(): pass / def dead(): pass / used()
SrcUsedDead ==
    Module(<<FunctionDef(s_used, <<Pass>>, <<>>),
             FunctionDef(s_dead, <<Pass>>, <<>>),
             Expr(Call(Name(s_used)))>>)

\* def f(): pass
\* def g(): f(); x.h()
\* def h(): pass
\* class cls:
\*     def meth(self): k()
\* def k(): pass
\* def outer():
\*     def inner(): p()
\* def p(): pass
\* @app.get("/x")
\* async def handler(): pass
\* def dead(): pass
\* if __name__ == "__main__": outer()
SrcCalls ==
    Module(<<FunctionDef(s_f, <<Pass>>, <<>>),
             FunctionDef(s_g, <<Expr(Call(Name(s_f))),
                                Expr(Call(Attribute(Name(s_x), s_h)))>>, <<>>),
             FunctionDef(s_h, <<Pass>>, <<>>),
             ClassDef(s_cls, <<FunctionDef(s_meth, <<Expr(Call(Name(s_k)))>>, <<>>)>>),
             FunctionDef(s_k, <<Pass>>, <<>>),
             FunctionDef(s_outer,
                         <<FunctionDef(s_inner, <<Expr(Call(Name(s_p)))>>, <<>>)>>, <<>>),
             FunctionDef(s_p, <<Pass>>, <<>>),
             AsyncFunctionDef(s_handler, <<Pass>>,
                              <<Call(Attribute(Name(s_app), s_get))>>),
             FunctionDef(s_dead, <<Pass>>, <<>>),
             If(TRUE, <<Expr(Call(Name(s_outer)))>>)>>)

\* import b / b.f()
SrcA == Module(<<import_(s_b), Expr(Call(Attribute(Name(s_b), s_f)))>>)

\* import c
SrcB == Module(<<import_(s_c)>>)

\* import a / import numpy
SrcC == Module(<<import_(s_a), import_(s_numpy)>>)

\* import a / import os
SrcD == Module(<<import_(s_a), import_(s_os)>>)

\* import np
SrcImportNp == Module(<<import_(s_np)>>)

\* from . import b
SrcFromDotImportB == Module(<<ImportFrom(None, <<alias(s_b, None)>>, 1)>>)

SrcEmpty == Module(<<>>)

\* import a
SrcImportA == Module(<<import_(s_a)>>)

\* import a / import b
SrcImportAB == Module(<<import_(s_a), import_(s_b)>>)

\* def b(): pass
SrcDefB == Module(<<FunctionDef(s_b, <<Pass>>, <<>>)>>)

ProjNumpy == <<<<py(s_m), SrcNumpy>>>>

ProjCalls == <<<<py(s_m), SrcUsedDead>>, <<py(s_n), SrcCalls>>>>

ProjBroken == <<<<py(s_a), SrcA>>, <<py(s_b), SyntaxError>>>>

ProjCycle == <<<<py(s_a), SrcA>>, <<py(s_b), SrcB>>, <<py(s_c), SrcC>>, <<py(s_d), SrcD>>>>

ProjColon == <<<<py(external_id(s_np)), SrcImportNp>>>>

ProjPkg == <<<<in_dir(s_pkg, s_init_py), SrcEmpty>>,
             <<in_dir(s_pkg, py(s_a)), SrcFromDotImportB>>,
             <<in_dir(s_pkg, py(s_b)), SrcEmpty>>>>

\* from . import d / from .. import d / from ... import d
\* from .m import d, f / from .m import * / from .. import *
\* from ..m import f / from . import *
SrcRelative ==
    Module(<<ImportFrom(None, <<alias(s_d, None)>>, 1),
             ImportFrom(None, <<alias(s_d, None)>>, 2),
             ImportFrom(None, <<alias(s_d, None)>>, 3),
             ImportFrom(s_m, <<alias(s_d, None), alias(s_f, None)>>, 1),
             ImportFrom(s_m, <<alias(s_star, None)>>, 1),
             ImportFrom(None, <<alias(s_star, None)>>, 2),
             ImportFrom(s_m, <<alias(s_f, None)>>, 2),
             ImportFrom(None, <<alias(s_star, None)>>, 1)>>)

\* The module a.b.c, two packages deep under the directory x.
ProjRel == <<<<in_dir(s_x, in_dir(s_a, in_dir(s_b, py(s_c)))), SrcRelative>>>>

\* a.py imports itself.
ProjSelf == <<<<py(s_a), SrcImportA>>>>

\* x imports a and b, and a imports b.
ProjDiamond == <<<<py(s_x), SrcImportAB>>, <<py(s_a), SrcA>>, <<py(s_b), SrcEmpty>>>>

\* A package a under the directory x that defines b and has a submodule b,
\* a package c with a submodule b next to it, and a file m.py at the top
\* level.
ProjTree == <<<<in_dir(s_x, in_dir(s_a, s_init_py)), SrcDefB>>,
              <<in_dir(s_x, in_dir(s_a, py(s_b))), SrcEmpty>>,
              <<in_dir(s_x, in_dir(s_c, py(s_b))), SrcEmpty>>,
              <<py(s_m), SrcEmpty>>>>

Projects == {ProjNumpy, ProjCalls, ProjBroken, ProjCycle, ProjColon, ProjPkg, ProjSelf,
             ProjDiamond, ProjTree, ProjRel}

\* The sequences of up to MaxFiles distinct positions of a project.
Selections(n) ==
    UNION {{sel \in [1..len -> 1..n] : \A i, j \in 1..len : sel[i] = sel[j] => i = j} :
             len \in {l \in 1..MaxFiles : l <= n}}

\* The top-level names the projects import.
TopNames == {s_numpy, s_np, s_os, s_a, s_b, s_c}

\* An interpreter without numpy where os.py lies under the stdlib path; one
\* where os is a frozen module (its spec's origin is "frozen"); one with
\* numpy installed under sys.base_prefix; one in which find_spec raises for
\* every name.
Interpreters ==
    {[builtin |-> {s_sys}, raises |-> {}, stdlib |-> {s_os}],
     [builtin |-> {s_sys}, raises |-> {}, stdlib |-> {}],
     [builtin |-> {s_sys}, raises |-> {}, stdlib |-> {s_os, s_numpy}],
     [builtin |-> {s_sys}, raises |-> TopNames, stdlib |-> {}]}

Fresh ==
    /\ pc = "detect"
    /\ roots = <<>>
    /\ module_map = <<>>
    /\ processed = 0
    /\ nodes = <<>>
    /\ edges = {}
    /\ external_deps = {}
    /\ module_details = <<>>
    /\ layout_depth = <<>>
    /\ layout = NoLayout
    /\ artifact = NoArtifact

Init ==
    /\ \E proj \in Projects : \E sel \in Selections(Len(proj)) :
          files = [i \in 1..Len(sel) |-> proj[sel[i]]]
    /\ symbol_level \in BOOLEAN
    /\ RADON_AVAILABLE \in BOOLEAN
    /\ interpreter \in Interpreters
    /\ Fresh
    /\ run = 1
    /\ first = NoArtifact

Next ==
    \/ DetectProjectRoots
    \/ AnalyzeModule
    \/ AnalyzeDone
    \/ AddExternalNodes
    \/ LayoutFallback
    \/ LayoutGraph
    \/ Dfs1Root
    \/ Dfs1Neighbor
    \/ Dfs1Return
    \/ Dfs1Done
    \/ Dfs2Root
    \/ Dfs2Neighbor
    \/ Dfs2Return
    \/ Condense
    \/ KahnStep
    \/ PlaceNodes
    \/ Return

Spec == Init /\ [][Next]_vars

\* build() is called again on the same input, in the same interpreter.
BuildAgain ==
    /\ pc = "done"
    /\ run = 1
    /\ run' = 2
    /\ first' = artifact
    /\ pc' = "detect"
    /\ roots' = <<>>
    /\ module_map' = <<>>
    /\ processed' = 0
    /\ nodes' = <<>>
    /\ edges' = {}
    /\ external_deps' = {}
    /\ module_details' = <<>>
    /\ layout_depth' = <<>>
    /\ layout' = NoLayout
    /\ artifact' = NoArtifact
    /\ UNCHANGED <<files, symbol_level, RADON_AVAILABLE, interpreter>>

NextTwice == Next \/ BuildAgain

SpecTwice == Init /\ [][NextTwice]_vars

(***************************************************************************)
(* Properties                                                              *)
(***************************************************************************)

Done == pc = "done"

Details == {module_details[i] : i \in 1..Len(module_details)}

FunctionsOf(d) == Range(d[2].functions)

NodeIdsOf(art) == {art.nodes[i].id : i \in 1..Len(art.nodes)}

\* C1: in the artifact build() returns, both ends of every edge are ids of
\* nodes of `nodes`.
C1_EdgeEndpointsAreNodes ==
    Done => \A i \in 1..Len(artifact.edges) :
               /\ artifact.edges[i][1] \in NodeIdsOf(artifact)
               /\ artifact.edges[i][2] \in NodeIdsOf(artifact)

\* C2: a file that fails to parse still has a module node in the artifact,
\* with zero symbols and zero imports, and is the source of no edge.
C2_UnparseableModuleKeepsNode ==
    Done => \A k \in 1..Len(module_map) :
               ~file_code(module_map[k][2]).parses =>
                  /\ \E i \in 1..Len(artifact.nodes) :
                        /\ artifact.nodes[i].kind = "module"
                        /\ artifact.nodes[i].id = module_map[k][1]
                        /\ artifact.nodes[i].stats =
                              [Classes |-> 0, Functions |-> 0, Imports |-> 0]
                  /\ \A i \in 1..Len(artifact.edges) :
                        artifact.edges[i][1] # module_map[k][1]

\* C3, as stated: dead_functions is exactly the set of the top-level
\* functions whose name is in the calls of no top-level function and that
\* are no entry point.
C3_DeadIsUncalledByTopLevel ==
    \A d \in Details :
       Range(d[2].dead_functions) =
          {f.name : f \in {g \in FunctionsOf(d) :
                             /\ \A h \in FunctionsOf(d) : g.name \notin h.calls
                             /\ ~g.is_entrypoint}}

\* The call targets of the module's call graph: of every function
\* definition in it, top-level, method or nested.
CallTargets(d) == {p[2] : p \in d[2].call_graph}

\* C3, amended: dead_functions is exactly the set of the top-level functions
\* whose name is a call target of no function definition of the module
\* (top-level, method or nested: the module's call_graph) and that are no
\* entry point.
C3_DeadIsUncalledInCallGraph ==
    \A d \in Details :
       Range(d[2].dead_functions) =
          {f.name : f \in {g \in FunctionsOf(d) :
                             g.name \notin CallTargets(d) /\ ~g.is_entrypoint}}

\* C3's case: a function that only a method or a nested function calls is
\* not dead, next to a dead function and to an uncalled entry point.
C3_Witness ==
    \E d \in Details :
       /\ d[2].dead_functions # <<>>
       /\ \E f \in FunctionsOf(d) :
             /\ f.name \notin Range(d[2].dead_functions)
             /\ ~f.is_entrypoint
             /\ \A h \in FunctionsOf(d) : f.name \notin h.calls
       /\ \E f \in FunctionsOf(d) : f.is_entrypoint /\ f.name \notin CallTargets(d)

\* The names called by an expression statement of the module body itself.
ModuleLevelCalled(body) ==
    {body[i].value.func.id :
       i \in {j \in 1..Len(body) : /\ body[j].k = "Expr"
                                   /\ body[j].value.e = "Call"
                                   /\ body[j].value.func.e = "Name"}}

\* C4: a top-level function called at module top level is not listed in
\* dead_functions; for  def used / def dead / used()  the list is ["dead"].
C4_UsedAtModuleLevelNotDead ==
    \A d \in Details :
       /\ ModuleLevelCalled(file_code(d[2].path).body) \cap Range(d[2].dead_functions) = {}
       /\ file_code(d[2].path) = SrcUsedDead => d[2].dead_functions = <<s_dead>>

\* C5, as stated: called_by of a top-level function f is exactly the set of
\* the top-level functions whose calls contain f.name.
C5_CalledByIsTopLevelCallers ==
    \A d \in Details : \A f \in FunctionsOf(d) :
       f.called_by = {g.name : g \in {h \in FunctionsOf(d) : f.name \in h.calls}}

\* C5, amended: called_by of a top-level function f is exactly the set of the
\* callers of the module's call_graph (the names of its function
\* definitions: top-level, method or nested) whose call set contains f.name.
C5_CalledByIsCallGraphCallers ==
    \A d \in Details : \A f \in FunctionsOf(d) :
       f.called_by = {p[1] : p \in {q \in d[2].call_graph : q[2] = f.name}}

\* C5's case: one function has a top-level caller, another a caller that is
\* no top-level function.
C5_Witness ==
    \E d \in Details :
       LET top == {f.name : f \in FunctionsOf(d)}
       IN /\ \E f \in FunctionsOf(d) : f.called_by # {} /\ f.called_by \subseteq top
          /\ \E f \in FunctionsOf(d) : f.called_by \ top # {}

\* C6: no edge has its source equal to its target.
C6_NoSelfEdge == \A e \in edges : e[1] # e[2]

\* C7: the package of every external node, and the target of every external
\* edge, is a name is_stdlib rejects.
C7_ExternalsAreNotStdlib ==
    /\ \A i \in 1..Len(nodes) :
          nodes[i].kind = "external" =>
             /\ nodes[i].id = external_id(nodes[i].title)
             /\ ~is_stdlib(nodes[i].title)
    /\ \A e \in edges :
          e[3] = s_external =>
             \E i \in 1..Len(nodes) : /\ nodes[i].kind = "external"
                                      /\ nodes[i].id = e[2]
                                      /\ ~is_stdlib(nodes[i].title)

\* C7's case: a finished run that emitted an external node for a module
\* that also imports a name is_stdlib accepts.
C7_Witness ==
    /\ Done
    /\ \E d \in Details :
          /\ \E n \in 1..Len(d[2].imports) : is_stdlib(get_top_module(d[2].imports[n]))
          /\ \E e \in edges : e[1] = d[1] /\ e[3] = s_external

\* C8: the second build() on the same input returns the same edges, the same
\* nodes (with their places) and the same layout_depth as the first,
\* whatever order the sets were iterated in.
C8_SecondRunIsIdentical ==
    (run = 2 /\ Done) =>
       /\ artifact.edges = first.edges
       /\ artifact.nodes = first.nodes
       /\ artifact.layout_depth = first.layout_depth

\* C8's case: a second run is over, on a graph with a cycle and three depths.
C8_Witness ==
    /\ run = 2
    /\ Done
    /\ Len(artifact.edges) >= 4
    /\ \E i \in 1..Len(artifact.layout_depth) : artifact.layout_depth[i][2] = 2
    /\ \E i, j \in 1..Len(artifact.layout_depth) :
          /\ i # j
          /\ artifact.layout_depth[i][2] = 1
          /\ artifact.layout_depth[j][2] = 1

\* C9: `nodes` lists the module nodes in sorted order of module id, each
\* followed by its symbol nodes, then the external nodes in sorted order of
\* package name.
C9_NodesInSortedOrder ==
    Done =>
       LET ns == artifact.nodes
           mods == {i \in 1..Len(ns) : ns[i].kind = "module"}
           exts == {i \in 1..Len(ns) : ns[i].kind = "external"}
           syms == (1..Len(ns)) \ (mods \cup exts)
       IN /\ \A i, j \in mods : i < j => StrLess(ns[i].id, ns[j].id)
          /\ \A i, j \in exts : i < j => StrLess(ns[i].title, ns[j].title)
          /\ \A i \in mods \cup syms : \A j \in exts : i < j
          /\ \A i \in syms : \E m \in mods :
                /\ m < i
                /\ ns[m].id = ns[i].parent
                /\ \A k \in (m + 1)..i : k \in syms

\* A module body that has  import P as a  and a statement  a.f().
AliasedUse(body, P) ==
    \E i, j \in 1..Len(body) :
       /\ body[i].k = "Import"
       /\ body[j].k = "Expr"
       /\ body[j].value.e = "Call"
       /\ body[j].value.func.e = "Attribute"
       /\ body[j].value.func.value.e = "Name"
       /\ \E n \in 1..Len(body[i].names) :
             /\ body[i].names[n].name = P
             /\ body[i].names[n].asname = body[j].value.func.value.id

\* C10's case: a finished run, a module m and a package P, not stdlib and
\* not in the project, that m imports under an alias and calls through it.
C10_Case(d, P) ==
    /\ Done
    /\ AliasedUse(file_code(d[2].path).body, P)
    /\ ~is_stdlib(P)
    /\ _resolve_import(P) = None

ExternalNodesOf(P) ==
    {i \in 1..Len(nodes) : nodes[i].kind = "external" /\ nodes[i].id = external_id(P)}

\* C10, as stated: there is exactly one external node external:P, and the
\* edges (m, external:P, imports) and (m, external:P, calls).
C10_AliasedExternalHasImportsAndCalls ==
    \A d \in Details : \A P \in TopNames :
       C10_Case(d, P) =>
          /\ Cardinality(ExternalNodesOf(P)) = 1
          /\ <<d[1], external_id(P), s_imports>> \in edges
          /\ <<d[1], external_id(P), s_calls>> \in edges

\* C10, amended: there is exactly one external node external:P and the edge
\* (m, external:P, external); no imports edge and no calls edge leads to
\* external:P.
C10_AliasedExternalHasExternalEdge ==
    \A d \in Details : \A P \in TopNames :
       C10_Case(d, P) =>
          /\ Cardinality(ExternalNodesOf(P)) = 1
          /\ <<d[1], external_id(P), s_external>> \in edges
          /\ \A e \in edges : e[2] = external_id(P) => e[3] = s_external

C10_Witness == \E d \in Details : \E P \in TopNames : C10_Case(d, P)

ModuleNodeIds == {nodes[i].id : i \in {j \in 1..Len(nodes) : nodes[j].kind = "module"}}

\* C11: for the files pkg/__init__ (empty), pkg/a with  from . import b  and
\* pkg/b (empty), the module ids are exactly pkg, pkg.a and pkg.b, the edge
\* (pkg.a, pkg.b, imports) is emitted and there is no external node.
C11_PkgModulesKeepPackagePrefix ==
    (Done /\ Range(files) = Range(ProjPkg)) =>
       /\ ModuleNodeIds = {s_pkg, symbol_id(s_pkg, s_a), symbol_id(s_pkg, s_b)}
       /\ {module_map[k][1] : k \in 1..Len(module_map)} = ModuleNodeIds
       /\ <<symbol_id(s_pkg, s_a), symbol_id(s_pkg, s_b), s_imports>> \in Range(artifact.edges)
       /\ \A i \in 1..Len(nodes) : nodes[i].kind # "external"

\* The layout graph, read off the finished nodes and edges: the module and
\* external nodes, and the imports, calls and external edges between them.
LayoutNodes ==
    {nodes[i].id : i \in {j \in 1..Len(nodes) : nodes[j].kind \in {"module", "external"}}}

LayoutArcs ==
    {<<e[1], e[2]>> : e \in {d \in edges : /\ d[3] \in LayoutTypes
                                           /\ d[1] \in LayoutNodes
                                           /\ d[2] \in LayoutNodes}}

\* The nodes reachable from the set S along layout arcs, S included.
RECURSIVE ReachableFrom(_)
ReachableFrom(S) ==
    LET more == S \cup {a[2] : a \in {b \in LayoutArcs : b[1] \in S}}
    IN IF more = S THEN S ELSE ReachableFrom(more)

MutuallyReachable(n, m) == m \in ReachableFrom({n}) /\ n \in ReachableFrom({m})

SccOf(n) == {m \in LayoutNodes : MutuallyReachable(n, m)}

Max(S) == CHOOSE x \in S : \A y \in S : y <= x

\* The number of arcs on the longest path of the condensation that ends at
\* the component of n.
RECURSIVE LongestPathTo(_)
LongestPathTo(n) ==
    LET preds == {a[1] : a \in {b \in LayoutArcs : b[2] \in SccOf(n) /\ b[1] \notin SccOf(n)}}
    IN IF preds = {} THEN 0 ELSE 1 + Max({LongestPathTo(s) : s \in preds})

DepthOf(n) == DictGet(layout_depth, n)

\* C12: after the layout of a graph that has an edge, the depth recorded for
\* every module and external node is the number of arcs on the longest path
\* of the condensation that ends at its component: a component without an
\* incoming arc has depth 0, depth grows along every arc between components,
\* the nodes of one cycle share a depth; for a -> b -> c -> a plus d -> a,
\* d is at depth 0 and a, b, c are at depth 1.
C12_DepthIsLongestPathInCondensation ==
    (Done /\ edges # {}) =>
       /\ \A n \in LayoutNodes :
             /\ DictHas(layout_depth, n)
             /\ DepthOf(n) = LongestPathTo(n)
             /\ (\A a \in LayoutArcs : a[2] \in SccOf(n) => a[1] \in SccOf(n))
                   => DepthOf(n) = 0
       /\ \A a \in LayoutArcs :
             IF MutuallyReachable(a[1], a[2]) THEN DepthOf(a[1]) = DepthOf(a[2])
             ELSE DepthOf(a[1]) < DepthOf(a[2])
       /\ LayoutArcs = {<<s_a, s_b>>, <<s_b, s_c>>, <<s_c, s_a>>, <<s_d, s_a>>}
             => /\ DepthOf(s_d) = 0
                /\ DepthOf(s_a) = 1 /\ DepthOf(s_b) = 1 /\ DepthOf(s_c) = 1

\* C13: every path of the input files has its own entry in the module table
\* and is analysed; a file at the top level is mapped (under the empty root)
\* even when other files live in directories.
C13_EveryFileIsMapped ==
    pc # "detect" =>
       /\ \A i \in 1..Len(files) :
             \E k \in 1..Len(module_map) : module_map[k][2] = files[i][1]
       /\ Done => \A i \in 1..Len(files) :
                     files[i][2].parses =>
                        \E k \in 1..Len(module_details) :
                           module_details[k][2].path = files[i][1]

\* C14: no two nodes of the artifact have the same id, across module, symbol
\* and external nodes.
C14_NodeIdsAreUnique ==
    Done => \A i, j \in 1..Len(artifact.nodes) :
               i # j => artifact.nodes[i].id # artifact.nodes[j].id

\* The imports of module d that the resolver resolves to d itself.
SelfResolved(d) ==
    {d[2].imports[n] : n \in {k \in 1..Len(d[2].imports) :
                                _resolve_import(d[2].imports[k]) = d[1]}}

\* The top segments of the imports, of any module, that resolve to no module
\* and that is_stdlib rejects.
UnresolvedTops ==
    UNION {{get_top_module(d[2].imports[n]) :
              n \in {k \in 1..Len(d[2].imports) :
                       /\ _resolve_import(d[2].imports[k]) = None
                       /\ ~is_stdlib(get_top_module(d[2].imports[k]))}} : d \in Details}

\* C15: an import that resolves to the importing module's own id contributes
\* nothing: no imports or calls edge from the module to itself, and its top
\* segment is an external package (with an external node and external edges)
\* only if an unresolved import registers it.
C15_SelfResolvedImportContributesNothing ==
    Done => \A d \in Details : \A imp \in SelfResolved(d) :
               /\ <<d[1], d[1], s_imports>> \notin edges
               /\ <<d[1], d[1], s_calls>> \notin edges
               /\ get_top_module(imp) \notin UnresolvedTops =>
                     /\ get_top_module(imp) \notin external_deps
                     /\ ExternalNodesOf(get_top_module(imp)) = {}
                     /\ \A e \in edges : e[2] # external_id(get_top_module(imp))
                                            \/ e[3] # s_external

\* C16: layout_depth has a depth for the id of every node of `nodes`, also
\* when the graph has no edges.
C16_EveryNodeHasDepth ==
    Done => \A i \in 1..Len(artifact.nodes) :
               /\ DictHas(artifact.layout_depth, artifact.nodes[i].id)
               /\ DictGet(artifact.layout_depth, artifact.nodes[i].id) \in Nat

\* The components are final and the depths are computed: the state in which
\* the nodes are about to be placed.
ComponentsAssigned == pc = "kahn" /\ layout.queue = <<>>

\* C17: once the components are assigned, two nodes of the layout graph have
\* the same component id exactly when each is reachable from the other,
\* whatever order the node set and the adjacency sets were iterated in.
C17_ComponentsAreMutualReachability ==
    ComponentsAssigned =>
       /\ layout.all_nodes = LayoutNodes
       /\ \A n \in LayoutNodes : HasComponent(layout.component, n)
       /\ \A n, m \in LayoutNodes :
             component_of(layout.component, n) = component_of(layout.component, m)
                <=> MutuallyReachable(n, m)

\* C17's case: the components are assigned, one of them is a cycle of three
\* nodes, and an arc joins two different components.
C17_Witness ==
    /\ ComponentsAssigned
    /\ \E n \in LayoutNodes : Cardinality(SccOf(n)) >= 3
    /\ \E a \in LayoutArcs :
          component_of(layout.component, a[1]) # component_of(layout.component, a[2])

\* Import names to resolve against whatever module table a run has built.
ImportNames ==
    {s_a, s_b, s_c, s_np, symbol_id(s_a, s_b), symbol_id(s_d, s_b), symbol_id(s_a, s_d),
     symbol_id(s_pkg, s_b), symbol_id(s_c, s_a)}

KnownIds == {module_map[k][1] : k \in 1..Len(module_map)}

\* The place of a known id in the module table.
TableIndex(id) == CHOOSE k \in 1..Len(module_map) : module_map[k][1] = id

\* The known id that comes first in the module table among S, or None.
FirstKnown(S) ==
    IF S \cap KnownIds = {} THEN None
    ELSE CHOOSE id \in S \cap KnownIds :
            \A other \in S \cap KnownIds : TableIndex(id) <= TableIndex(other)

\* What each strategy finds for the import name I, or None.
Strategy(n, I) ==
    CASE n = 1 -> FirstKnown({I})
      [] n = 2 -> FirstKnown({id \in KnownIds : EndsWith(id, <<".">> \o I)})
      [] n = 3 -> FirstKnown({id \in KnownIds :
                                Last(Split(id, ".")) = Last(Split(I, "."))})
      [] n = 4 -> FirstKnown({id \in KnownIds : Contains(id, I)})
      [] n = 5 -> FirstKnown({Split(I, ".")[1]})

\* The strategy that decides I: the first that finds an id, 6 when none does.
Deciding(I) ==
    IF \A n \in 1..5 : Strategy(n, I) = None THEN 6
    ELSE CHOOSE n \in 1..5 : /\ Strategy(n, I) # None
                             /\ \A k \in 1..(n - 1) : Strategy(k, I) = None

\* The module table is built and the modules are being analysed.
TableBuilt == pc = "analyze"

\* C18: _resolve_import(I) is the result of the first strategy that finds an
\* id, in the order: I itself, the first known id ending with "." + I, the
\* first known id with I's final segment, the first known id containing I,
\* I's first segment; None when no strategy finds one; and a result that is
\* not None is a known module id.
C18_ResolveImportIsFirstMatchingStrategy ==
    TableBuilt =>
       \A I \in ImportNames :
          /\ _resolve_import(I) =
                (IF Deciding(I) = 6 THEN None ELSE Strategy(Deciding(I), I))
          /\ _resolve_import(I) # None => _resolve_import(I) \in KnownIds

\* C18's case: one module table in which every strategy decides some import,
\* no strategy decides another, and a strategy has two candidates.
C18_Witness ==
    /\ TableBuilt
    /\ processed > 0
    /\ \A n \in 1..6 : \E I \in ImportNames : Deciding(I) = n
    /\ \E I \in ImportNames :
          Cardinality({id \in KnownIds : EndsWith(id, <<".">> \o I)}) >= 2

\* C19: with symbol_level on, every top-level class or function definition
\* of every parsed module has one node of its kind with id <module id>.<name>
\* and the module as parent, and the edge (module id, symbol id, defines),
\* whatever the metric provider returns.
C19_SymbolNodesForEverySymbol ==
    (Done /\ symbol_level) =>
       \A d \in Details :
          LET symbols == extract_symbols(file_code(d[2].path).body)
          IN \A s \in 1..Len(symbols) :
                /\ Cardinality({i \in 1..Len(nodes) :
                                   /\ nodes[i].id = symbol_id(d[1], symbols[s][1])
                                   /\ nodes[i].kind = symbols[s][2]
                                   /\ nodes[i].parent = d[1]}) = 1
                /\ <<d[1], symbol_id(d[1], symbols[s][1]), s_defines>> \in edges

\* C20: when no edge has type imports, calls or external, every node lies on
\* the fallback circle of radius 500, also when there are defines edges.
C20_FallbackWithoutLayoutEdges ==
    (Done /\ \A e \in edges : e[3] \notin LayoutTypes) =>
       \A i \in 1..Len(artifact.nodes) : artifact.nodes[i].xy.radius = FallbackRadius

\* The parent package of a module: its id without the final segment.
ParentPackageOf(module_id) == Join(ButLast(Split(module_id, ".")), ".")

\* The segments s1..sn of a parent package; the empty package has none.
PackageSegments(parent_pkg) == IF parent_pkg = <<>> THEN <<>> ELSE Split(parent_pkg, ".")

\* The resolved base of a relative import of level k with base M (or None)
\* under the parent package parent_pkg.
ResolvedBase(k, M, parent_pkg) ==
    LET segs == PackageSegments(parent_pkg)
        n == Len(segs)
        up == IF k <= n THEN Join([i \in 1..(n - k) |-> segs[i]], ".") ELSE parent_pkg
    IN IF M = None THEN up ELSE up \o <<".">> \o M

\* What the alias records under the base: nothing, or one name.
RecordOf(base, a) ==
    IF a = s_star THEN (IF base = <<>> THEN <<>> ELSE <<base>>)
    ELSE IF base = <<>> THEN <<a>>
    ELSE <<base \o <<".">> \o a>>

\* The records of the aliases names[1..i], in their order.
RECURSIVE RecordsUpTo(_, _, _)
RecordsUpTo(base, names, i) ==
    IF i = 0 THEN <<>> ELSE RecordsUpTo(base, names, i - 1) \o RecordOf(base, names[i].name)

\* The relative imports among the statements of a module body.
RelativeImports(body) ==
    {body[i] : i \in {j \in 1..Len(body) : body[j].k = "ImportFrom" /\ body[j].level >= 1}}

\* C21: for a relative import of level k >= 1 with optional base M, in a
\* module whose parent package has the segments s1..sn, the resolved base is
\* s1..s(n-k) joined by dots when k <= n and the whole parent package
\* otherwise, with ".M" appended when M is present; every alias records
\* base.alias, or the alias alone under an empty base, and a wildcard records
\* the base when the base is not empty.  These records are among the imports
\* of the module.
C21_RelativeImportRecords ==
    \A d \in Details :
       \A node \in RelativeImports(file_code(d[2].path).body) :
          LET base == ResolvedBase(node.level, node.module, ParentPackageOf(d[1]))
              records == RecordsUpTo(base, node.names, Len(node.names))
          IN /\ visit_ImportFrom(node, ParentPackageOf(d[1])) = records
             /\ Range(records) \subseteq Range(d[2].imports)

\* C21's case: an analysed module two packages deep whose relative imports
\* stay inside the parent package, climb to its top, climb past it, name a
\* base module, and import a wildcard under an empty and a non-empty base.
C21_Witness ==
    \E d \in Details :
       LET pp == ParentPackageOf(d[1])
           n == Len(PackageSegments(pp))
           rel == RelativeImports(file_code(d[2].path).body)
       IN /\ n = 2
          /\ \E node \in rel : node.level < n /\ node.module = None
          /\ \E node \in rel : node.level = n /\ node.module # None
          /\ \E node \in rel : node.level > n
          /\ \E node \in rel : Len(node.names) = 2
          /\ \E node \in rel :
                /\ node.names[1].name = s_star
                /\ ResolvedBase(node.level, node.module, pp) = <<>>
          /\ \E node \in rel :
                /\ node.names[1].name = s_star
                /\ ResolvedBase(node.level, node.module, pp) # <<>>
          /\ d[2].imports # <<>>

====
